---------------------------- MODULE Spec2Model ----------------------------
(***************************************************************************)
(* A model of src/platform/PlatformTools.ts: the dynamic module resolver   *)
(* PlatformTools.load and the promise returned by PlatformTools.writeFile. *)
(*                                                                         *)
(* The host is modelled by the two places a "require" can find a package:  *)
(* the module resolution of the library's own location ("direct") and the  *)
(* directory process.cwd()/node_modules ("cwd").  A require either returns *)
(* a handle naming what was loaded from where, or throws a host error      *)
(* naming what could not be loaded.                                        *)
(***************************************************************************)
EXTENDS Naturals, FiniteSets, Sequences, TLC

\* ------------------------------------------------------------------ bounds

\* Number of logical threads of control calling load.
NumCallers == 2

\* Number of writeFile calls that may be in flight.
NumWriters == 2

Callers == 1..NumCallers

Writers == 1..NumWriters

\* --------------------------------------------------- the resolution table

\* The switch of PlatformTools.load: case label :> argument of its require.
ResolutionTable ==
    ("spanner" :> "@google-cloud/spanner") @@
    ("mongodb" :> "mongodb") @@
    ("@sap/hana-client" :> "@sap/hana-client") @@
    ("hdb-pool" :> "hdb-pool") @@
    ("mysql" :> "mysql") @@
    ("mysql2" :> "mysql2") @@
    ("mariadb" :> "mariadb/callback") @@
    ("oracledb" :> "oracledb") @@
    ("pg" :> "pg") @@
    ("pg-native" :> "pg-native") @@
    ("pg-query-stream" :> "pg-query-stream") @@
    ("typeorm-aurora-data-api-driver" :> "typeorm-aurora-data-api-driver") @@
    ("redis" :> "redis") @@
    ("ioredis" :> "ioredis") @@
    ("better-sqlite3" :> "better-sqlite3") @@
    ("sqlite3" :> "sqlite3") @@
    ("sql.js" :> "sql.js") @@
    ("mssql" :> "mssql") @@
    ("react-native-sqlite-storage" :> "react-native-sqlite-storage")

\* The case labels of the switch.
Whitelist == DOMAIN ResolutionTable

\* The sets of names an application may ask for in one run of the model: an
\* identity entry of the table with a renaming entry and a name that is no
\* case label, or the two renaming entries of the table.
Workloads ==
    { {"redis", "spanner", "totally-unknown-name"}, {"spanner", "mariadb"} }

\* What the switch requires for a case label.
DirectTarget(name) == ResolutionTable[name]

\* Faulty variant of FallbackId: the catch block retries the switch's own target.
FallbackIdDirectTarget(name) ==
    IF name \in Whitelist THEN ResolutionTable[name] ELSE name

\* What the catch block requires under cwd/node_modules: the name itself.
FallbackId(name) == name

\* Package identifiers a direct require of a call with a name of ns can ask
\* for.
DirectIds(ns) == {ResolutionTable[n] : n \in ns \cap Whitelist}

\* Package identifiers that may lie under cwd/node_modules.
CwdIds(ns) == ns \cup DirectIds(ns)

VARIABLES
    workload,    \* the names this application asks for (fixed by Init)
    installed,   \* ids a plain require("<id>") loads successfully
    cwdModules,  \* ids that require(cwd/node_modules/<id>) loads successfully
    call,        \* per caller: the position and locals of its load call
    prev,        \* history: name and outcome of the last call that returned
                 \* since the environment last changed
    wr           \* per writer: its writeFile call and the promise it returned

vars == <<workload, installed, cwdModules, call, prev, wr>>

\* ---------------------------------------------------------------- values

None == [kind |-> "none", root |-> "", id |-> ""]

\* What a successful require returns.
Handle(root, id) == [kind |-> "handle", root |-> root, id |-> id]

\* What a failing require throws (MODULE_NOT_FOUND, a corrupt install, ...).
HostError(root, id) == [kind |-> "HostError", root |-> root, id |-> id]

\* new TypeError(`Invalid Package for PlatformTools.load: ${name}`): the one
\* error load itself constructs, carrying the requested name.
InvalidPackage(name) == [kind |-> "InvalidPackage", root |-> "", id |-> name]

\* A function that ends without return or throw yields undefined.
Undefined == [kind |-> "undefined", root |-> "", id |-> ""]

IsHandle(r) == r.kind = "handle"

IsError(r) == r.kind \in {"HostError", "InvalidPackage"}

\* require(id) from the library ("direct") or
\* require(path.resolve(process.cwd() + "/node_modules/" + id)) ("cwd").
require(root, id) ==
    IF id \in (IF root = "direct" THEN installed ELSE cwdModules)
    THEN Handle(root, id)
    ELSE HostError(root, id)

\* PlatformTools.load run alone, start to end, in the current environment.
load(name) ==
    IF name \in Whitelist
    THEN LET direct == require("direct", DirectTarget(name))
         IN  IF IsHandle(direct)
             THEN direct
             ELSE require("cwd", FallbackId(name))
    ELSE InvalidPackage(name)

\* ------------------------------------------------------------------- load

IdleCall ==
    [pc |-> "idle", name |-> "", result |-> None, directs |-> 0,
     caught |-> None, fallbacks |-> 0, fbId |-> ""]

NoPrev == [name |-> "", result |-> None]

IdleWrite ==
    [pc |-> "idle", path |-> "", err |-> "", state |-> "none", reason |-> "",
     settles |-> 0, observed |-> <<>>]

AllIdle == \A c \in Callers : call[c].pc = "idle"

\* A caller enters load(name).
Call(c, n) ==
    /\ call[c].pc = "idle"
    /\ call' = [call EXCEPT ![c] = [IdleCall EXCEPT !.pc = "switch", !.name = n]]
    /\ UNCHANGED <<workload, installed, cwdModules, prev, wr>>

\* Faulty variant of SwitchStep: a name that is no case label is sent to the catch
\* block (a `default: throw` in the switch).
SwitchStepDefaultToCatch(c) ==
    /\ call[c].pc = "switch"
    /\ IF call[c].name \in Whitelist
       THEN LET r == require("direct", DirectTarget(call[c].name))
            IN  call' = [call EXCEPT ![c] =
                    IF IsHandle(r)
                    THEN [@ EXCEPT !.pc = "done", !.result = r, !.directs = @ + 1]
                    ELSE [@ EXCEPT !.pc = "catch", !.caught = r, !.directs = @ + 1]]
       ELSE call' = [call EXCEPT ![c].pc = "catch"]
    /\ UNCHANGED <<workload, installed, cwdModules, prev, wr>>

\* Faulty variant of SwitchStep: a case label is first looked for under
\* cwd/node_modules and only then required directly.
SwitchStepCwdFirst(c) ==
    /\ call[c].pc = "switch"
    /\ IF call[c].name \in Whitelist
       THEN LET f == require("cwd", FallbackId(call[c].name))
                r == IF IsHandle(f) THEN f
                     ELSE require("direct", DirectTarget(call[c].name))
            IN  call' = [call EXCEPT ![c] =
                    IF IsHandle(r)
                    THEN [@ EXCEPT !.pc = "done", !.result = r, !.directs = @ + 1]
                    ELSE [@ EXCEPT !.pc = "catch", !.caught = r, !.directs = @ + 1]]
       ELSE call' = [call EXCEPT ![c].pc = "after"]
    /\ UNCHANGED <<workload, installed, cwdModules, prev, wr>>

\* The try block: the switch on name.  A case label requires its target and
\* returns the handle, or the require throws into the catch block; any other
\* name matches no case and control leaves the try statement normally.
SwitchStep(c) ==
    /\ call[c].pc = "switch"
    /\ IF call[c].name \in Whitelist
       THEN LET r == require("direct", DirectTarget(call[c].name))
            IN  call' = [call EXCEPT ![c] =
                    IF IsHandle(r)
                    THEN [@ EXCEPT !.pc = "done", !.result = r, !.directs = @ + 1]
                    ELSE [@ EXCEPT !.pc = "catch", !.caught = r, !.directs = @ + 1]]
       ELSE call' = [call EXCEPT ![c].pc = "after"]
    /\ UNCHANGED <<workload, installed, cwdModules, prev, wr>>

\* Faulty variant of CatchStep: the catch block wraps a failure of the fallback in
\* the Invalid Package error instead of letting it through.
CatchStepWrap(c) ==
    /\ call[c].pc = "catch"
    /\ LET r == require("cwd", FallbackId(call[c].name))
       IN  call' = [call EXCEPT ![c] =
               [@ EXCEPT !.pc = "done",
                         !.result = IF IsHandle(r) THEN r
                                    ELSE InvalidPackage(call[c].name),
                         !.fallbacks = @ + 1,
                         !.fbId = FallbackId(call[c].name)]]
    /\ UNCHANGED <<workload, installed, cwdModules, prev, wr>>

\* Faulty variant of CatchStep: the catch block rethrows the error it caught
\* (`throw err`) and tries no fallback.
CatchStepRethrow(c) ==
    /\ call[c].pc = "catch"
    /\ call' = [call EXCEPT ![c] =
            [@ EXCEPT !.pc = "done", !.result = call[c].caught]]
    /\ UNCHANGED <<workload, installed, cwdModules, prev, wr>>

\* Faulty variant of CatchStep: the requested name is kept in a static field that
\* every call in flight overwrites, so the fallback may load another call's
\* name.
CatchStepSharedName(c) ==
    /\ call[c].pc = "catch"
    /\ \E d \in Callers :
          /\ call[d].pc # "idle"
          /\ LET r == require("cwd", FallbackId(call[d].name))
             IN  call' = [call EXCEPT ![c] =
                     [@ EXCEPT !.pc = "done", !.result = r,
                               !.fallbacks = @ + 1,
                               !.fbId = FallbackId(call[d].name)]]
    /\ UNCHANGED <<workload, installed, cwdModules, prev, wr>>

\* Faulty variant of CatchStep: a handle found by the fallback is registered so that
\* later direct requires of the name's target succeed (a cache).
CatchStepCaching(c) ==
    /\ call[c].pc = "catch"
    /\ LET r == require("cwd", FallbackId(call[c].name))
       IN  /\ call' = [call EXCEPT ![c] =
                  [@ EXCEPT !.pc = "done", !.result = r,
                            !.fallbacks = @ + 1,
                            !.fbId = FallbackId(call[c].name)]]
           /\ installed' = IF IsHandle(r)
                           THEN installed \cup {DirectTarget(call[c].name)}
                           ELSE installed
    /\ UNCHANGED <<workload, cwdModules, prev, wr>>

\* The catch block: return require(cwd/node_modules/<name>).  The caught
\* error is dropped; the fallback's handle is returned or its error thrown.
CatchStep(c) ==
    /\ call[c].pc = "catch"
    /\ LET r == require("cwd", FallbackId(call[c].name))
       IN  call' = [call EXCEPT ![c] =
               [@ EXCEPT !.pc = "done", !.result = r,
                         !.fallbacks = @ + 1,
                         !.fbId = FallbackId(call[c].name)]]
    /\ UNCHANGED <<workload, installed, cwdModules, prev, wr>>

\* Faulty variant of ThrowStep: the final throw is missing and load returns
\* undefined.
ThrowStepReturnsUndefined(c) ==
    /\ call[c].pc = "after"
    /\ call' = [call EXCEPT ![c] = [@ EXCEPT !.pc = "done", !.result = Undefined]]
    /\ UNCHANGED <<workload, installed, cwdModules, prev, wr>>

\* After the try statement: throw new TypeError("Invalid Package ...").
ThrowStep(c) ==
    /\ call[c].pc = "after"
    /\ call' = [call EXCEPT ![c] =
            [@ EXCEPT !.pc = "done", !.result = InvalidPackage(call[c].name)]]
    /\ UNCHANGED <<workload, installed, cwdModules, prev, wr>>

\* The caller receives the outcome (the handle, or the thrown error).
Return(c) ==
    /\ call[c].pc = "done"
    /\ prev' = [name |-> call[c].name, result |-> call[c].result]
    /\ call' = [call EXCEPT ![c] = IdleCall]
    /\ UNCHANGED <<workload, installed, cwdModules, wr>>

\* The environment changes between calls: a package starts or stops being
\* loadable by the direct require.  load is synchronous, so no change falls
\* inside a call.
ChangeInstalled(id) ==
    /\ AllIdle
    /\ installed' = IF id \in installed THEN installed \ {id}
                    ELSE installed \cup {id}
    /\ prev' = NoPrev
    /\ UNCHANGED <<workload, cwdModules, call, wr>>

\* A package starts or stops being loadable from cwd/node_modules.
ChangeCwdModules(id) ==
    /\ AllIdle
    /\ cwdModules' = IF id \in cwdModules THEN cwdModules \ {id}
                     ELSE cwdModules \cup {id}
    /\ prev' = NoPrev
    /\ UNCHANGED <<workload, installed, call, wr>>

Init ==
    /\ workload \in Workloads
    /\ installed \in SUBSET DirectIds(workload)
    /\ cwdModules \in SUBSET CwdIds(workload)
    /\ call = [c \in Callers |-> IdleCall]
    /\ prev = NoPrev
    /\ wr = [w \in Writers |-> IdleWrite]

Next ==
    \/ \E c \in Callers, n \in workload : Call(c, n)
    \/ \E c \in Callers : SwitchStep(c)
    \/ \E c \in Callers : CatchStep(c)
    \/ \E c \in Callers : ThrowStep(c)
    \/ \E c \in Callers : Return(c)
    \/ \E id \in DirectIds(workload) : ChangeInstalled(id)
    \/ \E id \in CwdIds(workload) : ChangeCwdModules(id)

Spec == Init /\ [][Next]_vars

\* -------------------------------------------------------------- writeFile

\* Paths the writers are given.
Paths == {"ormconfig.json", "schema.sql"}

\* What the host's write callback is called with: "" stands for null (no
\* error), the others for a host error object.
WriteErrs == {"", "ENOENT", "EACCES"}

\* The promise's reject function (fail): settles a pending promise as
\* rejected with the reason; a promise already settled is left as it is.
Reject(p, reason) ==
    IF p.state = "pending"
    THEN [p EXCEPT !.state = "rejected", !.reason = reason, !.settles = @ + 1]
    ELSE p

\* The promise's resolve function (ok): settles a pending promise as
\* fulfilled; a promise already settled is left as it is.
Fulfill(p) ==
    IF p.state = "pending"
    THEN [p EXCEPT !.state = "fulfilled", !.settles = @ + 1]
    ELSE p

\* writeFile(path, data): the promise is constructed, its executor hands the
\* write and the callback to fs.writeFile, and the pending promise is
\* returned.
WriteFile(w, p) ==
    /\ wr[w].pc = "idle"
    /\ wr' = [wr EXCEPT ![w] =
            [IdleWrite EXCEPT !.pc = "writing", !.path = p, !.state = "pending"]]
    /\ UNCHANGED <<workload, installed, cwdModules, call, prev>>

\* The host finishes the write and invokes the callback with err.
WriteCompletes(w, e) ==
    /\ wr[w].pc = "writing"
    /\ wr' = [wr EXCEPT ![w] = [@ EXCEPT !.pc = "callback", !.err = e]]
    /\ UNCHANGED <<workload, installed, cwdModules, call, prev>>

\* Faulty variant of CallbackIfErr: the callback calls ok() before it looks at err.
CallbackOkFirst(w) ==
    /\ wr[w].pc = "callback"
    /\ wr' = [wr EXCEPT ![w] =
            [(IF wr[w].err # "" THEN Reject(Fulfill(wr[w]), wr[w].err)
                                ELSE Fulfill(wr[w]))
                EXCEPT !.pc = "afterIf"]]
    /\ UNCHANGED <<workload, installed, cwdModules, call, prev>>

\* The callback's first statement: if (err) fail(err).
CallbackIfErr(w) ==
    /\ wr[w].pc = "callback"
    /\ wr' = [wr EXCEPT ![w] =
            [(IF wr[w].err # "" THEN Reject(wr[w], wr[w].err) ELSE wr[w])
                EXCEPT !.pc = "afterIf"]]
    /\ UNCHANGED <<workload, installed, cwdModules, call, prev>>

\* The callback's second statement, run on both paths: ok().
CallbackOk(w) ==
    /\ wr[w].pc = "afterIf"
    /\ wr' = [wr EXCEPT ![w] = [Fulfill(wr[w]) EXCEPT !.pc = "returned"]]
    /\ UNCHANGED <<workload, installed, cwdModules, call, prev>>

\* The caller awaiting the promise is resumed with its settlement, once the
\* callback has returned.
Observe(w) ==
    /\ wr[w].pc = "returned"
    /\ wr[w].state \in {"fulfilled", "rejected"}
    /\ wr[w].observed = <<>>
    /\ wr' = [wr EXCEPT ![w].observed =
            <<[state |-> wr[w].state, reason |-> wr[w].reason]>>]
    /\ UNCHANGED <<workload, installed, cwdModules, call, prev>>

\* The caller drops the promise; the writer may be used again.
Forget(w) ==
    /\ wr[w].pc = "returned"
    /\ wr[w].observed # <<>>
    /\ wr' = [wr EXCEPT ![w] = IdleWrite]
    /\ UNCHANGED <<workload, installed, cwdModules, call, prev>>

InitWrite ==
    /\ workload = {"spanner", "mariadb"}
    /\ installed = {}
    /\ cwdModules = {}
    /\ call = [c \in Callers |-> IdleCall]
    /\ prev = NoPrev
    /\ wr = [w \in Writers |-> IdleWrite]

NextWrite ==
    \/ \E w \in Writers, p \in Paths : WriteFile(w, p)
    \/ \E w \in Writers, e \in WriteErrs : WriteCompletes(w, e)
    \/ \E w \in Writers : CallbackIfErr(w)
    \/ \E w \in Writers : CallbackOk(w)
    \/ \E w \in Writers : Observe(w)
    \/ \E w \in Writers : Forget(w)

SpecWrite == InitWrite /\ [][NextWrite]_vars

\* ----------------------------------------------------------------- claims

Done(c) == call[c].pc = "done"

Listed(c) == call[c].name \in Whitelist

\* The direct load of c's name fails in the current environment.
DirectFails(c) == DirectTarget(call[c].name) \notin installed

\* No loadable copy of c's name lies under cwd/node_modules.
FallbackFails(c) == call[c].name \notin cwdModules

\* C1, as stated: a call with a name that is no case label attempts the
\* fallback load of cwd/node_modules/<name>, returns its handle when a copy
\* is there, and fails only when that load fails.
C1_UnlistedGoesToFallback ==
    \A c \in Callers :
        (Done(c) /\ ~Listed(c)) =>
            /\ call[c].fallbacks = 1
            /\ call[c].fbId = call[c].name
            /\ (~FallbackFails(c) => call[c].result = Handle("cwd", call[c].name))
            /\ (IsError(call[c].result) => FallbackFails(c))

\* C1, amended: a call with a name that is no case label attempts no load at
\* all, neither direct nor fallback, and fails with the Invalid Package
\* error carrying the name, also when a copy lies under cwd/node_modules.
C1_UnlistedNeverLoads ==
    \A c \in Callers :
        (call[c].pc \in {"after", "done"} /\ ~Listed(c)) =>
            /\ call[c].directs = 0
            /\ call[c].fallbacks = 0
            /\ (Done(c) => call[c].result = InvalidPackage(call[c].name))

\* A call with an unlisted name has ended while a copy of the name lies
\* under cwd/node_modules.
C1_Witness ==
    \E c \in Callers : Done(c) /\ ~Listed(c) /\ ~FallbackFails(c)

\* C2, as stated: when the direct load and the fallback load of a listed
\* name both fail, the call fails with the one error kind load constructs
\* itself, carrying the name, and never with a host error of a load.
C2_BothFailRaisesOwnError ==
    \A c \in Callers :
        (Done(c) /\ Listed(c) /\ DirectFails(c) /\ FallbackFails(c)) =>
            call[c].result = InvalidPackage(call[c].name)

\* C2, amended: when the direct load and the fallback load of a listed name
\* both fail, the call fails with the host error of the fallback load of
\* cwd/node_modules/<name>, as thrown; the error of the direct load is
\* dropped and is not what reaches the caller.
C2_BothFailRaisesFallbackError ==
    \A c \in Callers :
        (Done(c) /\ Listed(c) /\ DirectFails(c) /\ FallbackFails(c)) =>
            /\ call[c].caught = HostError("direct", DirectTarget(call[c].name))
            /\ call[c].result = HostError("cwd", call[c].name)
            /\ call[c].result # call[c].caught

\* A call with a listed name has ended after both of its loads failed.
C2_Witness ==
    \E c \in Callers :
        /\ Done(c) /\ Listed(c) /\ DirectFails(c) /\ FallbackFails(c)
        /\ call[c].directs = 1 /\ call[c].fallbacks = 1

\* C3: a call with a name that is no case label and has no copy under
\* cwd/node_modules ends in an error that carries the name: it returns no
\* handle, and neither null nor undefined.
C3_UnlistedAbsentRaises ==
    \A c \in Callers :
        (Done(c) /\ ~Listed(c) /\ FallbackFails(c)) =>
            /\ IsError(call[c].result)
            /\ call[c].result.kind = "InvalidPackage"
            /\ call[c].result.id = call[c].name

\* load("totally-unknown-name") has ended with nothing of that name under
\* cwd/node_modules.
C3_Witness ==
    \E c \in Callers :
        /\ Done(c) /\ call[c].name = "totally-unknown-name"
        /\ "totally-unknown-name" \notin cwdModules

\* C4: when the direct load of a listed name fails and a loadable copy lies
\* under cwd/node_modules/<name>, the call returns the handle of that copy;
\* the error of the direct load is caught and not propagated.
C4_FallbackRescuesListed ==
    \A c \in Callers :
        (Done(c) /\ Listed(c) /\ DirectFails(c) /\ ~FallbackFails(c)) =>
            /\ call[c].caught.kind = "HostError"
            /\ call[c].result = Handle("cwd", call[c].name)

\* A call with a listed name has ended after its direct load threw, with a
\* copy of the name under cwd/node_modules.
C4_Witness ==
    \E c \in Callers :
        /\ Done(c) /\ Listed(c) /\ DirectFails(c) /\ ~FallbackFails(c)
        /\ call[c].caught.kind = "HostError"

\* C5: when the direct load of a listed name succeeds, the call returns the
\* handle of that direct load and attempts no fallback, whether or not a
\* copy lies under cwd/node_modules.
C5_DirectLoadWins ==
    \A c \in Callers :
        (Done(c) /\ Listed(c) /\ ~DirectFails(c)) =>
            /\ call[c].result.kind = "handle"
            /\ call[c].result.root = "direct"
            /\ call[c].result.id = ResolutionTable[call[c].name]
            /\ call[c].fallbacks = 0

\* A call with a listed name has ended with its target installed and a copy
\* of the name under cwd/node_modules as well.
C5_Witness ==
    \E c \in Callers :
        Done(c) /\ Listed(c) /\ ~DirectFails(c) /\ ~FallbackFails(c)

\* C6, as stated: for any name, a call ends in an error only after its
\* fallback load was attempted and failed, and the fallback is attempted at
\* most once per call.
C6_FailureOnlyAfterFallback ==
    \A c \in Callers :
        /\ call[c].fallbacks <= 1
        /\ (Done(c) /\ IsError(call[c].result)) =>
              /\ call[c].fallbacks = 1
              /\ call[c].result = HostError("cwd", call[c].fbId)

\* C6, amended: a call with a listed name ends in an error only after its
\* direct load failed and its fallback load was attempted and failed; a call
\* with a name that is no case label ends in an error with no load
\* attempted; the fallback is attempted at most once per call.
C6_FailureOrder ==
    \A c \in Callers :
        /\ call[c].fallbacks <= 1
        /\ (Done(c) /\ IsError(call[c].result)) =>
              \/ /\ Listed(c)
                 /\ call[c].directs = 1
                 /\ call[c].caught.kind = "HostError"
                 /\ call[c].fallbacks = 1
                 /\ call[c].result = HostError("cwd", call[c].fbId)
              \/ /\ ~Listed(c)
                 /\ call[c].directs = 0
                 /\ call[c].fallbacks = 0
                 /\ call[c].result = InvalidPackage(call[c].name)

\* Two calls have ended in an error together, one after its fallback failed
\* and one without any load.
C6_Witness ==
    \E c, d \in Callers :
        /\ Done(c) /\ IsError(call[c].result) /\ call[c].fallbacks = 1
        /\ Done(d) /\ IsError(call[d].result) /\ call[d].fallbacks = 0

\* Some caller's load call moves in this step.
SomeCallMoves == \E c \in Callers : call'[c] # call[c]

\* C7: a call that ends has the outcome of the last call of the same name
\* that returned since the environment last changed, and no step of a call
\* changes what is installed or what lies under cwd/node_modules.
C7_Stateless ==
    /\ [](\A c \in Callers :
            (Done(c) /\ prev.name = call[c].name) =>
                call[c].result = prev.result)
    /\ [][SomeCallMoves => UNCHANGED <<installed, cwdModules>>]_vars

\* A second call of a name has ended through the fallback after a first call
\* of that name returned, with no change of the environment in between.
C7_Witness ==
    \E c \in Callers :
        /\ Done(c) /\ prev.name = call[c].name
        /\ call[c].fallbacks = 1

\* C8: under every interleaving of the callers' steps, a call that ends has
\* the outcome load has when run alone in the same environment; two calls of
\* "redis" in flight together with redis installed both return a handle.
C8_NoInterference ==
    \A c \in Callers :
        Done(c) =>
            /\ call[c].result = load(call[c].name)
            /\ (call[c].name = "redis" /\ "redis" \in installed) =>
                   IsHandle(call[c].result)

\* Two calls of "redis" have ended together, redis installed, each with a
\* handle.
C8_Witness ==
    \E c, d \in Callers :
        /\ c # d /\ "redis" \in installed
        /\ Done(c) /\ call[c].name = "redis" /\ IsHandle(call[c].result)
        /\ Done(d) /\ call[d].name = "redis" /\ IsHandle(call[d].result)

\* The entries of the table whose require names another package.
Renaming == {"spanner", "mariadb"}

\* C9: the fallback load asks for the requested name itself under
\* cwd/node_modules, also for "spanner" and "mariadb", whose direct loads
\* ask for "@google-cloud/spanner" and "mariadb/callback": a copy of the
\* direct target under cwd/node_modules is not found by the fallback.
C9_FallbackTargetsName ==
    \A c \in Callers :
        /\ call[c].fallbacks >= 1 =>
              /\ call[c].fbId = call[c].name
              /\ Done(c) => call[c].result.root = "cwd"
                            /\ call[c].result.id = call[c].name
        /\ (/\ Done(c) /\ call[c].name \in Renaming /\ DirectFails(c)
            /\ ResolutionTable[call[c].name] \in cwdModules
            /\ FallbackFails(c)) =>
               call[c].result = HostError("cwd", call[c].name)

\* load("spanner") and load("mariadb") have both ended in an error while
\* their direct targets, and not their names, lie under cwd/node_modules.
C9_Witness ==
    \E c, d \in Callers :
        /\ Done(c) /\ call[c].name = "spanner" /\ IsError(call[c].result)
        /\ Done(d) /\ call[d].name = "mariadb" /\ IsError(call[d].result)
        /\ {"@google-cloud/spanner", "mariadb/callback"} \subseteq cwdModules
        /\ cwdModules \cap {"spanner", "mariadb"} = {}

\* C10: the promise of writeFile settles exactly once and as the host
\* reported: rejected with the callback's error when there is one, and then
\* never fulfilled nor observed as fulfilled although ok() is called after
\* fail(err); fulfilled when there is none.
C10_WriteSettlesFaithfully ==
    \A w \in Writers :
        /\ wr[w].settles <= 1
        /\ (wr[w].pc \in {"afterIf", "returned"} /\ wr[w].err # "") =>
              /\ wr[w].state = "rejected"
              /\ wr[w].reason = wr[w].err
        /\ wr[w].pc = "returned" =>
              /\ wr[w].settles = 1
              /\ wr[w].err = "" => wr[w].state = "fulfilled"
        /\ \A i \in DOMAIN wr[w].observed :
              wr[w].observed[i] =
                  IF wr[w].err # ""
                  THEN [state |-> "rejected", reason |-> wr[w].err]
                  ELSE [state |-> "fulfilled", reason |-> ""]

\* A write that failed has run its callback to the end, ok() included, and
\* the awaiting caller has been resumed.
C10_Witness ==
    \E w \in Writers :
        /\ wr[w].pc = "returned" /\ wr[w].err # ""
        /\ wr[w].observed # <<>>

=============================================================================
